---------------------------- MODULE Spec2Model ----------------------------
(***************************************************************************)
(* A model of airline.py: the reservation store (AirlineSystem), its       *)
(* records (Passenger), the JSON persistence file and the clock that       *)
(* booking ids are drawn from.                                             *)
(*                                                                         *)
(* Python strings are sequences of one-character strings.  Every Python    *)
(* value is a tagged record [t, v]: t is "str" (v the characters), "int"   *)
(* (v the digits), "list" (v the sequence of elements) or "dict" (v the    *)
(* sequence of <<key characters, value>> pairs in insertion order).        *)
(***************************************************************************)
EXTENDS Integers, Sequences, FiniteSets, TLC

VARIABLES
    reservations,   \* self.reservations of the current store instance
    file,           \* the persistence file: [exists, content (JSON tokens)]
    now,            \* the clock: seconds elapsed since midnight
    last,           \* the last call made and its outcome
    args            \* the arguments under test, where a specification fixes them

vars == <<reservations, file, now, last, args>>

----------------------------------------------------------------------------
(* Bounds of the model.                                                    *)

\* book_ticket is not called once the collection holds MaxRes records.
MaxRes == 2
\* The clock does not advance beyond MaxClock seconds.
MaxClock == 1
\* The longest passport string validate_passport is probed with.
MaxPassportLen == 10
\* The longest arbitrary token sequence a persistence file is given.
MaxFileLen == 3
\* The most tokens a failed write leaves in the file before OSError.
MaxTornLen == 2
\* The most reservations a store searched on its own holds.
MaxSearchLen == 3

----------------------------------------------------------------------------
(* Characters and strings.                                                 *)

UpperChars == <<"A","B","C","D","E","F","G","H","I","J","K","L","M",
                "N","O","P","Q","R","S","T","U","V","W","X","Y","Z">>
LowerChars == <<"a","b","c","d","e","f","g","h","i","j","k","l","m",
                "n","o","p","q","r","s","t","u","v","w","x","y","z">>
DigitChars == <<"0","1","2","3","4","5","6","7","8","9">>
\* The characters str.strip() removes.
SpaceChars == <<"\t", "\n", "\f", "\r", " ">>

Range(s) == {s[i] : i \in DOMAIN s}

IndexOf(s, c) == CHOOSE i \in DOMAIN s : s[i] = c

\* str.lower() on one character.
LowerChar(c) ==
    IF c \in Range(UpperChars) THEN LowerChars[IndexOf(UpperChars, c)] ELSE c

\* str.lower()
Lower(s) == [i \in DOMAIN s |-> LowerChar(s[i])]

RECURSIVE LStrip(_)
LStrip(s) ==
    IF s # <<>> /\ Head(s) \in Range(SpaceChars) THEN LStrip(Tail(s)) ELSE s

RECURSIVE RStrip(_)
RStrip(s) ==
    IF s # <<>> /\ s[Len(s)] \in Range(SpaceChars)
    THEN RStrip(SubSeq(s, 1, Len(s) - 1))
    ELSE s

\* str.strip()
Strip(s) == RStrip(LStrip(s))

\* str(n) for a natural number n, and its two-digit zero-padded form (%H, %M, %S).
RECURSIVE DecStr(_)
DecStr(n) ==
    IF n < 10 THEN <<DigitChars[n + 1]>>
    ELSE DecStr(n \div 10) \o <<DigitChars[(n % 10) + 1]>>

TwoDigits(n) == <<DigitChars[(n \div 10) + 1], DigitChars[(n % 10) + 1]>>

----------------------------------------------------------------------------
(* Python values.                                                          *)

PyStr(s)  == [t |-> "str",  v |-> s]
PyInt(s)  == [t |-> "int",  v |-> s]
PyList(s) == [t |-> "list", v |-> s]
PyDict(s) == [t |-> "dict", v |-> s]

\* d[k] = val on a dict's pairs: an existing key keeps its place.
DictSet(pairs, k, val) ==
    IF \E i \in DOMAIN pairs : pairs[i][1] = k
    THEN [i \in DOMAIN pairs |-> IF pairs[i][1] = k THEN <<k, val>> ELSE pairs[i]]
    ELSE Append(pairs, <<k, val>>)

HasKey(d, k) == \E i \in DOMAIN d.v : d.v[i][1] = k

\* d[k] for a dict d that has the key k.
DictGet(d, k) == d.v[CHOOSE i \in DOMAIN d.v : d.v[i][1] = k][2]

K_booking_id == <<"b","o","o","k","i","n","g","_","i","d">>
K_name       == <<"n","a","m","e">>
K_passport   == <<"p","a","s","s","p","o","r","t">>
K_flight_no  == <<"f","l","i","g","h","t","_","n","o">>
K_seat       == <<"s","e","a","t">>

----------------------------------------------------------------------------
(* The persistence file holds JSON text, modelled as its sequence of        *)
(* tokens (white space and indentation carry no meaning).  A token is      *)
(* [k, v]: k is "[", "]", "{", "}", ",", ":", "str" (v the decoded         *)
(* characters), "num" (v the digits), "bad" (text that is no JSON token,   *)
(* such as an unterminated string) or "undecodable" (bytes that are no     *)
(* text in the encoding the file is opened with).                          *)

Tok(k, v) == [k |-> k, v |-> v]
Punct(k)  == Tok(k, <<>>)

RECURSIVE Dump(_)
RECURSIVE DumpElems(_)
RECURSIVE DumpMembers(_)

\* json.dump(x, f, indent=4): the tokens written for the value x.
Dump(x) ==
    CASE x.t = "str"  -> <<Tok("str", x.v)>>
      [] x.t = "int"  -> <<Tok("num", x.v)>>
      [] x.t = "list" -> <<Punct("[")>> \o DumpElems(x.v) \o <<Punct("]")>>
      [] x.t = "dict" -> <<Punct("{")>> \o DumpMembers(x.v) \o <<Punct("}")>>

DumpElems(xs) ==
    IF xs = <<>> THEN <<>>
    ELSE IF Len(xs) = 1 THEN Dump(xs[1])
    ELSE Dump(xs[1]) \o <<Punct(",")>> \o DumpElems(Tail(xs))

DumpMembers(ps) ==
    IF ps = <<>> THEN <<>>
    ELSE LET one == <<Tok("str", ps[1][1]), Punct(":")>> \o Dump(ps[1][2])
         IN  IF Len(ps) = 1 THEN one
             ELSE one \o <<Punct(",")>> \o DumpMembers(Tail(ps))

\* The outcome of parsing from a position: ok, the value, the next position.
Parsed(val, next) == [ok |-> TRUE, val |-> val, next |-> next]
ParseError == [ok |-> FALSE, val |-> PyList(<<>>), next |-> 0]

IsTok(toks, i, k) == i <= Len(toks) /\ toks[i].k = k

RECURSIVE ParseValue(_, _)
RECURSIVE ParseElems(_, _, _)
RECURSIVE ParseMembers(_, _, _)

\* One JSON value starting at token i.
ParseValue(toks, i) ==
    IF i > Len(toks) THEN ParseError
    ELSE CASE toks[i].k = "str" -> Parsed(PyStr(toks[i].v), i + 1)
           [] toks[i].k = "num" -> Parsed(PyInt(toks[i].v), i + 1)
           [] toks[i].k = "["   ->
                IF IsTok(toks, i + 1, "]") THEN Parsed(PyList(<<>>), i + 2)
                ELSE ParseElems(toks, i + 1, <<>>)
           [] toks[i].k = "{"   ->
                IF IsTok(toks, i + 1, "}") THEN Parsed(PyDict(<<>>), i + 2)
                ELSE ParseMembers(toks, i + 1, <<>>)
           [] OTHER -> ParseError

\* The elements of an array, the end of the text taken for the closing
\* bracket.
ParseElems_Lenient(toks, i, acc) ==
    LET e == ParseValue(toks, i) IN
    IF ~e.ok THEN ParseError
    ELSE IF IsTok(toks, e.next, ",")
         THEN ParseElems(toks, e.next + 1, Append(acc, e.val))
    ELSE IF IsTok(toks, e.next, "]")
         THEN Parsed(PyList(Append(acc, e.val)), e.next + 1)
    ELSE IF e.next = Len(toks) + 1
         THEN Parsed(PyList(Append(acc, e.val)), e.next)
    ELSE ParseError

\* The elements of an array from token i on, acc the elements read so far.
ParseElems(toks, i, acc) ==
    LET e == ParseValue(toks, i) IN
    IF ~e.ok THEN ParseError
    ELSE IF IsTok(toks, e.next, ",")
         THEN ParseElems(toks, e.next + 1, Append(acc, e.val))
    ELSE IF IsTok(toks, e.next, "]")
         THEN Parsed(PyList(Append(acc, e.val)), e.next + 1)
    ELSE ParseError

\* The members of an object from token i on, acc the pairs read so far.
ParseMembers(toks, i, acc) ==
    IF ~(IsTok(toks, i, "str") /\ IsTok(toks, i + 1, ":")) THEN ParseError
    ELSE LET e == ParseValue(toks, i + 2) IN
         IF ~e.ok THEN ParseError
         ELSE IF IsTok(toks, e.next, ",")
              THEN ParseMembers(toks, e.next + 1, DictSet(acc, toks[i].v, e.val))
         ELSE IF IsTok(toks, e.next, "}")
              THEN Parsed(PyDict(DictSet(acc, toks[i].v, e.val)), e.next + 1)
         ELSE ParseError

\* json.load(f): one value spanning the whole text, else JSONDecodeError.
json_load(toks) ==
    LET r == ParseValue(toks, 1) IN
    IF r.ok /\ r.next = Len(toks) + 1 THEN r ELSE ParseError

----------------------------------------------------------------------------
(* Passenger.                                                              *)

\* The calendar day of the run (%Y%m%d); the clock counts its seconds.
Today == <<"2","0","2","6","1","1","0","2">>

\* datetime.now().strftime('%Y%m%d%H%M%S') at second t of the day.
strftime(t) ==
    Today \o TwoDigits(t \div 3600) \o TwoDigits((t \div 60) % 60)
          \o TwoDigits(t % 60)

\* Passenger.generate_booking_id at second t.
generate_booking_id(t) == PyStr(<<"B","K">> \o strftime(t))

\* Passenger(name, passport, flight_no, seat), constructed at second t.
Passenger(name, passport, flight_no, seat, t) ==
    [name       |-> name,
     passport   |-> passport,
     flight_no  |-> flight_no,
     seat       |-> seat,
     booking_id |-> generate_booking_id(t)]

\* Passenger.to_dict
to_dict(r) ==
    PyDict(<< <<K_booking_id, r.booking_id>>,
              <<K_name,       r.name>>,
              <<K_passport,   r.passport>>,
              <<K_flight_no,  r.flight_no>>,
              <<K_seat,       r.seat>> >>)

----------------------------------------------------------------------------
(* AirlineSystem: its constants and pure helpers.                          *)

\* x in xs, for a Python list xs.
In(x, xs) == \E i \in DOMAIN xs : xs[i] = x

\* self.available_flights
available_flights ==
    << PyStr(<<"F","L","1","0","1">>),
       PyStr(<<"F","L","1","0","2">>),
       PyStr(<<"F","L","1","0","3">>) >>

\* self.seats: f"{row}{letter}" for row in range(1, 11) for letter in "ABCDEF"
seats ==
    [k \in 1..60 |->
        PyStr(DecStr(((k - 1) \div 6) + 1) \o <<UpperChars[((k - 1) % 6) + 1]>>)]

\* The character class [A-Z0-9].
IsUpperAlnum(c) == c \in Range(UpperChars) \/ c \in Range(DigitChars)

\* AirlineSystem.validate_passport: re.match(r'^[A-Z0-9]{9}$', passport).
\* "$" matches at the end of the string and also just before a newline that
\* ends the string.
validate_passport(passport) ==
    LET p == passport.v IN
    /\ Len(p) >= 9
    /\ \A i \in 1..9 : IsUpperAlnum(p[i])
    /\ \/ Len(p) = 9
       \/ Len(p) = 10 /\ p[10] = "\n"

\* The check with its second comparison against the wrong argument.
SeatTaken_WrongOperand(res, flight_no, seat) ==
    \E i \in DOMAIN res : res[i].seat = seat /\ res[i].flight_no = seat

\* any(r.seat == seat and r.flight_no == flight_no for r in self.reservations)
SeatTaken(res, flight_no, seat) ==
    \E i \in DOMAIN res : res[i].seat = seat /\ res[i].flight_no = flight_no

\* [r for r in self.reservations if r.booking_id != booking_id]
Remaining(res, booking_id) ==
    LET Keep(r) == r.booking_id # booking_id IN SelectSeq(res, Keep)

\* view_reservations: [r.to_dict() for r in self.reservations]
view_reservations(res) == [i \in DOMAIN res |-> to_dict(res[i])]

\* What save_reservations writes: json.dump([r.to_dict() ...], f, indent=4).
Serialized(res) == Dump(PyList(view_reservations(res)))

Absent == [exists |-> FALSE, content |-> <<>>]
\* save_reservations: open(data_file, 'w') and the dump.
save_reservations(res) == [exists |-> TRUE, content |-> Serialized(res)]

----------------------------------------------------------------------------
(* Outcomes of calls.                                                      *)

PyNone        == [t |-> "none", v |-> <<>>]
PyBool(b)     == [t |-> "bool", v |-> b]
PyExc(ty, m)  == [t |-> "exc",  v |-> <<ty, m>>]

\* The last call: the operation, how it ended and what it returned or raised.
Call(op, kind, val) == [op |-> op, kind |-> kind, val |-> val]
Returned(op, val)   == Call(op, "return", val)
Raised(op, exc)     == Call(op, "raise", exc)

----------------------------------------------------------------------------
(* load_reservations.                                                      *)

\* The items "for d in data" yields: the elements of a list, the keys of a
\* dict, the characters of a str.  An int is not iterable.
Iterable(data) == data.t \in {"list", "dict", "str"}
Items(data) ==
    CASE data.t = "list" -> data.v
      [] data.t = "dict" -> [i \in DOMAIN data.v |-> PyStr(data.v[i][1])]
      [] data.t = "str"  -> [i \in DOMAIN data.v |-> PyStr(<<data.v[i]>>)]
      [] OTHER           -> <<>>

FieldKeys == <<K_name, K_passport, K_flight_no, K_seat>>

\* The exception that evaluating d["name"], d["passport"], d["flight_no"],
\* d["seat"] raises for the item d, or PyNone.
ItemError(d) ==
    IF d.t # "dict" THEN PyExc("TypeError", "indices")
    ELSE IF \E j \in 1..4 : ~HasKey(d, FieldKeys[j])
         THEN PyExc("KeyError", "missing field")
    ELSE PyNone

\* The number of Passenger objects the comprehension constructs over items:
\* all of them, or those before the first item that raises.
Constructed(items) ==
    IF \E i \in DOMAIN items : ItemError(items[i]) # PyNone
    THEN (CHOOSE i \in DOMAIN items :
             /\ ItemError(items[i]) # PyNone
             /\ \A j \in 1..(i - 1) : ItemError(items[j]) = PyNone) - 1
    ELSE Len(items)

\* f.read() on a file opened in text mode raises UnicodeDecodeError when the
\* bytes do not decode.
Decodable(toks) == \A i \in DOMAIN toks : toks[i].k # "undecodable"

LoadOutcome(exc, res, built) ==
    [exc |-> exc, reservations |-> res, built |-> built]

\* The outcome of load_reservations on the file f for a store whose
\* reservations are res0, the k-th Passenger being constructed at second
\* stamps[k]: [exc, reservations, built].
load_reservations(res0, f, stamps) ==
    IF ~f.exists THEN LoadOutcome(PyNone, res0, 0)
    ELSE IF ~Decodable(f.content)
         THEN LoadOutcome(PyExc("UnicodeDecodeError", "invalid byte"), res0, 0)
    ELSE LET r == json_load(f.content) IN
         IF ~r.ok THEN LoadOutcome(PyNone, <<>>, 0)
         ELSE IF ~Iterable(r.val)
              THEN LoadOutcome(PyExc("TypeError", "not iterable"), res0, 0)
         ELSE LET items == Items(r.val)
                  n     == Constructed(items)
              IN  IF n < Len(items)
                  THEN LoadOutcome(ItemError(items[n + 1]), res0, n)
                  ELSE LoadOutcome(PyNone,
                            [i \in 1..n |->
                                Passenger(DictGet(items[i], K_name),
                                          DictGet(items[i], K_passport),
                                          DictGet(items[i], K_flight_no),
                                          DictGet(items[i], K_seat),
                                          stamps[i])],
                            n)

\* How many Passenger objects a load of the file f constructs.
LoadCount(f) ==
    IF f.exists /\ Decodable(f.content) /\ json_load(f.content).ok
    THEN Constructed(Items(json_load(f.content).val))
    ELSE 0

\* The clock readings of n successive constructions starting at second t:
\* the clock never runs backwards and may advance in between.
Stamps(n, t) ==
    {st \in [1..n -> t..MaxClock] : \A i \in 1..(n - 1) : st[i] <= st[i + 1]}

----------------------------------------------------------------------------
(* search_reservations.                                                    *)

\* ord(c), for the characters of the model.
Ord(c) ==
    CASE c \in Range(DigitChars) -> 47 + IndexOf(DigitChars, c)
      [] c \in Range(UpperChars) -> 64 + IndexOf(UpperChars, c)
      [] c \in Range(LowerChars) -> 96 + IndexOf(LowerChars, c)
      [] c = "\t" -> 9
      [] c = "\n" -> 10
      [] c = "\f" -> 12
      [] c = "\r" -> 13
      [] c = " "  -> 32
      [] c = "_"  -> 95

\* a < b on Python strings: lexicographic by code point.
RECURSIVE StrLess(_, _)
StrLess(a, b) ==
    IF b = <<>> THEN FALSE
    ELSE IF a = <<>> THEN TRUE
    ELSE IF Ord(Head(a)) < Ord(Head(b)) THEN TRUE
    ELSE IF Ord(Head(a)) > Ord(Head(b)) THEN FALSE
    ELSE StrLess(Tail(a), Tail(b))

\* q in s on Python strings.
IsSubstring(q, s) ==
    \E i \in 0..(Len(s) - Len(q)) : SubSeq(s, i + 1, i + Len(q)) = q

\* The sort key: x.name.lower()
NameKey(r) == Lower(r.name.v)

\* r placed into the sorted list rs behind every record whose key is not
\* greater than its own.
InsertByName(r, rs) ==
    LET k == Cardinality({i \in DOMAIN rs : ~StrLess(NameKey(r), NameKey(rs[i]))})
    IN  SubSeq(rs, 1, k) \o <<r>> \o SubSeq(rs, k + 1, Len(rs))

\* reservations.sort(key=lambda x: x.name.lower()): a stable sort.
RECURSIVE SortByName(_)
SortByName(rs) ==
    IF rs = <<>> THEN <<>>
    ELSE InsertByName(rs[Len(rs)], SortByName(SubSeq(rs, 1, Len(rs) - 1)))

\* search_reservations choosing the half by the query as typed, not lowered.
RECURSIVE search_reservations_RawCompare(_, _)
search_reservations_RawCompare(query, rs) ==
    IF query = <<>> THEN rs
    ELSE IF rs = <<>> THEN <<>>
    ELSE LET sorted   == SortByName(rs)
             mid      == Len(sorted) \div 2
             mid_name == Lower(sorted[mid + 1].name.v)
             q        == Lower(query)
         IN  IF mid_name = q THEN <<sorted[mid + 1]>>
             ELSE IF Len(sorted) = 1
                  THEN IF IsSubstring(q, mid_name) THEN <<sorted[1]>> ELSE <<>>
             ELSE IF StrLess(query, mid_name)
                  THEN search_reservations_RawCompare(query, SubSeq(sorted, 1, mid))
             ELSE search_reservations_RawCompare(query, SubSeq(sorted, mid + 1, Len(sorted)))

\* search_reservations as a scan of every record for the substring.
search_reservations_Scan(query, rs) ==
    IF query = <<>> THEN rs
    ELSE LET Matches(r) == IsSubstring(Lower(query), Lower(r.name.v))
         IN  SelectSeq(SortByName(rs), Matches)

\* search_reservations returning the last record left without testing it.
RECURSIVE search_reservations_NoSubstringTest(_, _)
search_reservations_NoSubstringTest(query, rs) ==
    IF query = <<>> THEN rs
    ELSE IF rs = <<>> THEN <<>>
    ELSE LET sorted   == SortByName(rs)
             mid      == Len(sorted) \div 2
             mid_name == Lower(sorted[mid + 1].name.v)
             q        == Lower(query)
         IN  IF mid_name = q THEN <<sorted[mid + 1]>>
             ELSE IF Len(sorted) = 1 THEN <<sorted[1]>>
             ELSE IF StrLess(q, mid_name)
                  THEN search_reservations_NoSubstringTest(q, SubSeq(sorted, 1, mid))
             ELSE search_reservations_NoSubstringTest(q, SubSeq(sorted, mid + 1, Len(sorted)))

\* The list search_reservations(query, rs) returns.
RECURSIVE search_reservations(_, _)
search_reservations(query, rs) ==
    IF query = <<>> THEN rs
    ELSE IF rs = <<>> THEN <<>>
    ELSE LET sorted   == SortByName(rs)
             mid      == Len(sorted) \div 2
             mid_name == Lower(sorted[mid + 1].name.v)
             q        == Lower(query)
         IN  IF mid_name = q THEN <<sorted[mid + 1]>>
             ELSE IF Len(sorted) = 1
                  THEN IF IsSubstring(q, mid_name) THEN <<sorted[1]>> ELSE <<>>
             ELSE IF StrLess(q, mid_name)
                  THEN search_reservations(q, SubSeq(sorted, 1, mid))
             ELSE search_reservations(q, SubSeq(sorted, mid + 1, Len(sorted)))

\* self.reservations after search_reservations(query): the top-level call
\* sorts the store's own list in place; the recursive calls sort slices.
AfterSearch(query, rs) ==
    IF query = <<>> \/ rs = <<>> THEN rs ELSE SortByName(rs)

----------------------------------------------------------------------------
(* book_ticket and cancel_reservation.                                     *)

\* A failed call of book_ticket: the exception, nothing stored or saved.
BookRaise(res, msg) ==
    [exc |-> PyExc("ValueError", msg), reservations |-> res,
     saved |-> FALSE, ret |-> PyNone]

\* book_ticket with the new record inserted at the front of the list.
book_ticket_Prepend(res, name, passport, flight_no, seat, t) ==
    IF Strip(name.v) = <<>> THEN BookRaise(res, "Name cannot be empty")
    ELSE IF ~validate_passport(passport)
         THEN BookRaise(res, "Invalid passport number (9 alphanumeric characters required)")
    ELSE IF ~In(flight_no, available_flights)
         THEN BookRaise(res, "Invalid flight number")
    ELSE IF ~In(seat, seats) THEN BookRaise(res, "Invalid seat")
    ELSE IF SeatTaken(res, flight_no, seat)
         THEN BookRaise(res, "Seat already booked")
    ELSE LET passenger == Passenger(name, passport, flight_no, seat, t) IN
         [exc |-> PyNone, reservations |-> <<passenger>> \o res,
          saved |-> TRUE, ret |-> passenger.booking_id]

\* book_ticket with the seat check made after the record is appended.
book_ticket_LateCheck(res, name, passport, flight_no, seat, t) ==
    IF Strip(name.v) = <<>> THEN BookRaise(res, "Name cannot be empty")
    ELSE IF ~validate_passport(passport)
         THEN BookRaise(res, "Invalid passport number (9 alphanumeric characters required)")
    ELSE IF ~In(flight_no, available_flights)
         THEN BookRaise(res, "Invalid flight number")
    ELSE IF ~In(seat, seats) THEN BookRaise(res, "Invalid seat")
    ELSE LET passenger == Passenger(name, passport, flight_no, seat, t) IN
         IF SeatTaken(res, flight_no, seat)
         THEN BookRaise(Append(res, passenger), "Seat already booked")
         ELSE [exc |-> PyNone, reservations |-> Append(res, passenger),
               saved |-> TRUE, ret |-> passenger.booking_id]

\* The outcome of book_ticket at second t on a store holding res:
\* [exc, reservations, saved, ret].
book_ticket(res, name, passport, flight_no, seat, t) ==
    IF Strip(name.v) = <<>> THEN BookRaise(res, "Name cannot be empty")
    ELSE IF ~validate_passport(passport)
         THEN BookRaise(res, "Invalid passport number (9 alphanumeric characters required)")
    ELSE IF ~In(flight_no, available_flights)
         THEN BookRaise(res, "Invalid flight number")
    ELSE IF ~In(seat, seats) THEN BookRaise(res, "Invalid seat")
    ELSE IF SeatTaken(res, flight_no, seat)
         THEN BookRaise(res, "Seat already booked")
    ELSE LET passenger == Passenger(name, passport, flight_no, seat, t) IN
         [exc |-> PyNone, reservations |-> Append(res, passenger),
          saved |-> TRUE, ret |-> passenger.booking_id]

\* cancel_reservation saving whether or not a record was removed.
cancel_reservation_AlwaysSaves(res, booking_id) ==
    LET initial_length == Len(res)
        rem            == Remaining(res, booking_id)
    IN  [reservations |-> rem,
         saved        |-> TRUE,
         ret          |-> PyBool(Len(rem) < initial_length)]

\* cancel_reservation returning without the save.
cancel_reservation_NeverSaves(res, booking_id) ==
    LET initial_length == Len(res)
        rem            == Remaining(res, booking_id)
    IN  [reservations |-> rem,
         saved        |-> FALSE,
         ret          |-> PyBool(Len(rem) < initial_length)]

\* The outcome of cancel_reservation: [reservations, saved, ret].
cancel_reservation(res, booking_id) ==
    LET initial_length == Len(res)
        rem            == Remaining(res, booking_id)
    IN  [reservations |-> rem,
         saved        |-> Len(rem) < initial_length,
         ret          |-> PyBool(Len(rem) < initial_length)]

----------------------------------------------------------------------------
(* The arguments the operations are called with.                           *)

ValidNames == { PyStr(<<"B","o","b">>), PyStr(<<"a","l","i","c","e">>) }
BlankNames == { PyStr(<<>>), PyStr(<<" ","\t">>) }
NameInputs == ValidNames \cup BlankNames

\* A well-formed passport and a short one.
GoodPassports == { PyStr(<<"A","B","C","D","E","F","G","H","1">>) }
OddPassports  == { PyStr(<<"A","B","1","2">>) }
PassportInputs == GoodPassports \cup OddPassports

KnownFlights == {available_flights[i] : i \in DOMAIN available_flights}
FlightInputs == KnownFlights \cup { PyStr(<<"F","L","9","9","9">>) }

SeatInputs == { PyStr(<<"1","A">>), PyStr(<<"1","1","A">>) }
KnownSeats == {seats[i] : i \in DOMAIN seats}

\* The number of fields of a call that are not plainly valid.
Oddities(name, passport, flight_no, seat) ==
    (IF name \in BlankNames THEN 1 ELSE 0)
    + (IF passport \in OddPassports THEN 1 ELSE 0)
    + (IF flight_no \notin KnownFlights THEN 1 ELSE 0)
    + (IF seat \notin KnownSeats THEN 1 ELSE 0)

\* The calls of book_ticket: every combination with at most one such field,
\* and those where all four are.
BookInputs ==
    {a : a \in {b \in NameInputs \X PassportInputs \X FlightInputs \X SeatInputs :
                    Oddities(b[1], b[2], b[3], b[4]) \in {0, 1, 4}}}

\* Every booking id the clock can produce, and a string that is none.
CancelInputs ==
    {generate_booking_id(t) : t \in 0..MaxClock} \cup {PyStr(<<"B","K">>)}

QueryInputs ==
    { <<>>, <<"A","L","I","C","E">> }

----------------------------------------------------------------------------
(* The operations of the store.                                            *)

\* AirlineSystem(): self.reservations = [] and load_reservations().
Construct ==
    \E stamps \in Stamps(LoadCount(file), now) :
        LET o == load_reservations(<<>>, file, stamps) IN
        /\ reservations' = o.reservations
        /\ now' = IF o.built = 0 THEN now ELSE stamps[o.built]
        /\ last' = IF o.exc = PyNone
                   THEN Returned("init", PyNone)
                   ELSE Raised("init", o.exc)
        /\ UNCHANGED <<file, args>>

\* system.book_ticket(name, passport, flight_no, seat)
BookCall(name, passport, flight_no, seat) ==
    LET o == book_ticket(reservations, name, passport, flight_no, seat, now)
    IN  /\ o.exc = PyNone => Len(reservations) < MaxRes
        /\ reservations' = o.reservations
        /\ file' = IF o.saved THEN save_reservations(o.reservations) ELSE file
        /\ last' = IF o.exc = PyNone
                   THEN Returned("book", o.ret)
                   ELSE Raised("book", o.exc)
        /\ UNCHANGED <<now, args>>

Book == \E a \in BookInputs : BookCall(a[1], a[2], a[3], a[4])

\* system.cancel_reservation(booking_id)
CancelCall(booking_id) ==
    LET o == cancel_reservation(reservations, booking_id) IN
    /\ reservations' = o.reservations
    /\ file' = IF o.saved THEN save_reservations(o.reservations) ELSE file
    /\ last' = Returned("cancel", o.ret)
    /\ UNCHANGED <<now, args>>

Cancel == \E booking_id \in CancelInputs : CancelCall(booking_id)

\* system.view_reservations()
View ==
    /\ last' = Returned("list", PyList(view_reservations(reservations)))
    /\ UNCHANGED <<reservations, file, now, args>>

\* system.search_reservations(query)
SearchCall(query) ==
    /\ reservations' = AfterSearch(query, reservations)
    /\ last' = Returned("search",
                        PyList(search_reservations(query, reservations)))
    /\ UNCHANGED <<file, now, args>>

Search == \E query \in QueryInputs : SearchCall(query)

\* A second passes.
Tick ==
    /\ now < MaxClock
    /\ now' = now + 1
    /\ last' = Call("tick", "none", PyNone)
    /\ UNCHANGED <<reservations, file, args>>

\* A store constructed at second 0 on an absent persistence file.
Init ==
    /\ reservations = <<>>
    /\ file = Absent
    /\ now = 0
    /\ last = Returned("init", PyNone)
    /\ args = <<>>

Next == Construct \/ Book \/ Cancel \/ View \/ Search \/ Tick

Spec == Init /\ [][Next]_vars

----------------------------------------------------------------------------
(* Bookings with a wider choice of passports, in every combination.        *)

\* Besides the above: a well-formed passport followed by a newline, and one
\* in lower case.
WidePassports ==
    PassportInputs \cup
    { PyStr(<<"A","B","C","D","E","F","G","H","1","\n">>),
      PyStr(<<"a","b","c","d","e","f","g","h","1">>) }

AllBookInputs ==
    {a : a \in NameInputs \X WidePassports \X FlightInputs \X SeatInputs}

BookAny == \E a \in AllBookInputs : BookCall(a[1], a[2], a[3], a[4])

NextAnyInput == BookAny \/ Cancel \/ Tick

SpecAnyInput == Init /\ [][NextAnyInput]_vars

----------------------------------------------------------------------------
(* validate_passport probed through book_ticket, on an empty store with    *)
(* the other three fields valid, with every string up to MaxPassportLen    *)
(* characters over an upper-case letter, a digit, a lower-case letter and  *)
(* the newline.                                                            *)

PassportAlphabet == {"A", "1", "a", "\n"}

\* The strings of n characters over the alphabet.
PassportStrings(n) == [1..n -> PassportAlphabet]

InitPassport ==
    /\ reservations = <<>>
    /\ file = Absent
    /\ now = 0
    /\ last = Returned("init", PyNone)
    /\ \E n \in 0..MaxPassportLen :
        \E p \in PassportStrings(n) : args = <<PyStr(p)>>

ProbePassport ==
    /\ last.op = "init"
    /\ BookCall(PyStr(<<"B","o","b">>), args[1],
                PyStr(<<"F","L","1","0","1">>), PyStr(<<"1","A">>))

SpecPassport == InitPassport /\ [][ProbePassport]_vars

\* Bookings, the clock and re-construction of the store only.
NextBookReload == Book \/ Tick \/ Construct

SpecBookReload == Init /\ [][NextBookReload]_vars

----------------------------------------------------------------------------
(* The rewrite of the persistence file going wrong.  open(data_file, 'w')  *)
(* empties the file and json.dump then writes the text piece by piece, so   *)
(* a write that stops early leaves a proper prefix of the text.            *)

\* The proper prefixes of the text: whole tokens, or whole tokens and the
\* beginning of a string, which is no JSON token.
TornWrites(content) ==
    {SubSeq(content, 1, k) : k \in 0..(Len(content) - 1)}
    \cup {Append(SubSeq(content, 1, k), Tok("bad", <<>>)) :
            k \in {j \in 0..(Len(content) - 1) : content[j + 1].k = "str"}}

\* The file after save_reservations raised OSError: unchanged when open()
\* failed, torn when one of the first writes failed.
WriteFailures(f, content) ==
    {f} \cup {[exists |-> TRUE, content |-> p] :
                p \in {q \in TornWrites(content) : Len(q) <= MaxTornLen}}

\* book_ticket whose save raises: the record is appended, OSError leaves
\* book_ticket.
BookCallSaveFails(name, passport, flight_no, seat) ==
    LET o == book_ticket(reservations, name, passport, flight_no, seat, now)
    IN  /\ o.saved
        /\ Len(reservations) < MaxRes
        /\ reservations' = o.reservations
        /\ file' \in WriteFailures(file, Serialized(o.reservations))
        /\ last' = Raised("book", PyExc("OSError", "save failed"))
        /\ UNCHANGED <<now, args>>

BookSaveFails == \E a \in BookInputs : BookCallSaveFails(a[1], a[2], a[3], a[4])

\* cancel_reservation whose save raises: the list is already replaced.
CancelCallSaveFails(booking_id) ==
    LET o == cancel_reservation(reservations, booking_id) IN
    /\ o.saved
    /\ reservations' = o.reservations
    /\ file' \in WriteFailures(file, Serialized(o.reservations))
    /\ last' = Raised("cancel", PyExc("OSError", "save failed"))
    /\ UNCHANGED <<now, args>>

CancelSaveFails == \E booking_id \in CancelInputs : CancelCallSaveFails(booking_id)

NextSaveFails == Book \/ Cancel \/ BookSaveFails \/ CancelSaveFails

SpecSaveFails == Init /\ [][NextSaveFails]_vars

\* The process killed while book_ticket rewrites the file; its memory is gone.
KilledInBook ==
    \E a \in BookInputs :
        LET o == book_ticket(reservations, a[1], a[2], a[3], a[4], now) IN
        /\ o.saved
        /\ Len(reservations) < MaxRes
        /\ reservations' = <<>>
        /\ \E p \in TornWrites(Serialized(o.reservations)) :
            file' = [exists |-> TRUE, content |-> p]
        /\ last' = Call("book", "killed", PyNone)
        /\ UNCHANGED <<now, args>>

\* The process killed while cancel_reservation rewrites the file.
KilledInCancel ==
    \E booking_id \in CancelInputs :
        LET o == cancel_reservation(reservations, booking_id) IN
        /\ o.saved
        /\ reservations' = <<>>
        /\ \E p \in TornWrites(Serialized(o.reservations)) :
            file' = [exists |-> TRUE, content |-> p]
        /\ last' = Call("cancel", "killed", PyNone)
        /\ UNCHANGED <<now, args>>

\* The process runs; once killed, all that follows is a new store
\* constructed by the next run.
Alive == last.kind # "killed"

NextInterrupted ==
    \/ Alive /\ Book
    \/ Alive /\ Cancel
    \/ Alive /\ KilledInBook
    \/ Alive /\ KilledInCancel
    \/ ~Alive /\ Construct

SpecInterrupted == Init /\ [][NextInterrupted]_vars

----------------------------------------------------------------------------
(* main: the menu loop over a store constructed on an absent file.  Each    *)
(* step is one iteration of the loop.  input() returns the text typed or    *)
(* raises EOFError; a save may raise OSError when the file cannot be       *)
(* opened for writing, and the file is then as it was.                      *)

EOFError == PyExc("EOFError", "")

\* The classes "except Exception" catches, of those raised here.
ExceptionClasses == {"ValueError", "OSError", "EOFError", "TypeError", "KeyError"}

\* What a handler does: where the loop goes and what is printed.
Handled(kind, text) == [kind |-> kind, text |-> text]

\* The handlers with EOFError treated as any other exception.
handle_EOFContinues(exc) ==
    IF exc.v[1] \in ExceptionClasses
    THEN Handled("prompt", "An error occurred")
    ELSE Handled("raise", "")

\* The handlers of the loop: except EOFError, except Exception.
handle(exc) ==
    IF exc.v[1] = "EOFError" THEN Handled("break", "EOF detected. Exiting system.")
    ELSE IF exc.v[1] \in ExceptionClasses
         THEN Handled("prompt", "An error occurred")
    ELSE Handled("raise", "")

\* The handler around book_ticket: except ValueError; the rest goes on to
\* the handlers of the loop.
book_handle(exc) ==
    IF exc.v[1] = "ValueError" THEN Handled("prompt", "Error") ELSE handle(exc)

\* One iteration as the loop leaves it: the choice typed (stripped), the
\* number of the prompt that met the end of input (0: none, 1: the menu
\* prompt), the exception raised in it (PyNone: none) and the line printed.
MenuStep(choice, eof, exc, text) ==
    [t |-> "menu",
     v |-> [choice |-> choice, eof |-> eof, exc |-> exc, text |-> text]]

Report(choice, eof, exc, h) ==
    last' = Call("menu", h.kind, MenuStep(choice, eof, exc, h.text))

\* The loop has not been left.
Looping == ~(last.op = "menu" /\ last.kind \in {"break", "raise"})

\* What is typed at the prompts.
ChoiceInputs ==
    { <<"1">>, <<" ","2">>, <<"3">>, <<"4">>, <<"5">>, <<"9">>, <<>> }
MenuNames     == { <<" ","B","o","b">>, <<"a","l","i","c","e">>, <<" ">> }
MenuPassports == { <<"A","B","C","D","E","F","G","H","1"," ">>, <<"A","B","1","2">> }
MenuFlights   == { <<"F","L","1","0","1">>, <<"F","L","1","0","2">>,
                   <<"F","L","9","9","9">> }
MenuSeats     == { <<"1","A">>, <<"1","1","A">> }
MenuBookingIds == {id.v : id \in CancelInputs}
MenuQueries   == QueryInputs \cup { <<" ">> }

Chosen(n) == {c \in ChoiceInputs : Strip(c) = <<n>>}

\* End of input at the menu prompt.
MenuEOF ==
    /\ Looping
    /\ Report(<<>>, 1, EOFError, handle(EOFError))
    /\ UNCHANGED <<reservations, file, now, args>>

\* Choice 1: four prompts, then book_ticket.
MenuBook ==
    /\ Looping
    /\ \E choice \in Chosen("1") :
        \/ \E eof \in 2..5 :
            /\ Report(Strip(choice), eof, EOFError, handle(EOFError))
            /\ UNCHANGED <<reservations, file>>
        \/ \E name \in MenuNames, passport \in MenuPassports,
              flight_no \in MenuFlights, seat \in MenuSeats :
            LET o == book_ticket(reservations, PyStr(Strip(name)),
                                 PyStr(Strip(passport)),
                                 PyStr(Strip(flight_no)),
                                 PyStr(Strip(seat)), now)
            IN  \/ /\ o.exc # PyNone
                   /\ Report(Strip(choice), 0, o.exc, book_handle(o.exc))
                   /\ UNCHANGED <<reservations, file>>
                \/ /\ o.exc = PyNone
                   /\ Len(reservations) < MaxRes
                   /\ reservations' = o.reservations
                   /\ file' = save_reservations(o.reservations)
                   /\ Report(Strip(choice), 0, PyNone,
                             Handled("prompt", "Booking confirmed"))
                \/ /\ o.exc = PyNone
                   /\ Len(reservations) < MaxRes
                   /\ reservations' = o.reservations
                   /\ file' = file
                   /\ Report(Strip(choice), 0, PyExc("OSError", "save failed"),
                             book_handle(PyExc("OSError", "save failed")))
    /\ UNCHANGED <<now, args>>

\* Choice 2: one prompt, then cancel_reservation.
MenuCancel ==
    /\ Looping
    /\ \E choice \in Chosen("2") :
        \/ /\ Report(Strip(choice), 2, EOFError, handle(EOFError))
           /\ UNCHANGED <<reservations, file>>
        \/ \E booking_id \in MenuBookingIds :
            LET o == cancel_reservation(reservations, PyStr(Strip(booking_id)))
            IN  \/ /\ ~o.saved
                   /\ Report(Strip(choice), 0, PyNone,
                             Handled("prompt", "Booking ID not found"))
                   /\ UNCHANGED <<reservations, file>>
                \/ /\ o.saved
                   /\ reservations' = o.reservations
                   /\ file' = save_reservations(o.reservations)
                   /\ Report(Strip(choice), 0, PyNone,
                             Handled("prompt", "Reservation cancelled successfully"))
                \/ /\ o.saved
                   /\ reservations' = o.reservations
                   /\ file' = file
                   /\ Report(Strip(choice), 0, PyExc("OSError", "save failed"),
                             handle(PyExc("OSError", "save failed")))
    /\ UNCHANGED <<now, args>>

\* Choice 3: view_reservations.
MenuView ==
    /\ Looping
    /\ \E choice \in Chosen("3") :
        Report(Strip(choice), 0, PyNone,
               Handled("prompt",
                       IF view_reservations(reservations) = <<>>
                       THEN "No reservations found" ELSE "All Reservations"))
    /\ UNCHANGED <<reservations, file, now, args>>

\* Choice 4: one prompt, then search_reservations.
MenuSearch ==
    /\ Looping
    /\ \E choice \in Chosen("4") :
        \/ /\ Report(Strip(choice), 2, EOFError, handle(EOFError))
           /\ UNCHANGED reservations
        \/ \E query \in MenuQueries :
            /\ reservations' = AfterSearch(Strip(query), reservations)
            /\ Report(Strip(choice), 0, PyNone,
                      Handled("prompt",
                              IF search_reservations(Strip(query), reservations) = <<>>
                              THEN "No matching reservations found"
                              ELSE "Search Results"))
    /\ UNCHANGED <<file, now, args>>

\* Choice 5: break.
MenuExit ==
    /\ Looping
    /\ \E choice \in Chosen("5") :
        Report(Strip(choice), 0, PyNone, Handled("break", "Exiting system. Goodbye!"))
    /\ UNCHANGED <<reservations, file, now, args>>

\* Any other choice.
MenuInvalid ==
    /\ Looping
    /\ \E choice \in ChoiceInputs :
        /\ Strip(choice) \notin {<<"1">>, <<"2">>, <<"3">>, <<"4">>, <<"5">>}
        /\ Report(Strip(choice), 0, PyNone,
                  Handled("prompt", "Invalid choice. Please select 1-5."))
    /\ UNCHANGED <<reservations, file, now, args>>

NextMenu ==
    \/ MenuEOF \/ MenuBook \/ MenuCancel \/ MenuView \/ MenuSearch
    \/ MenuExit \/ MenuInvalid

SpecMenu == Init /\ [][NextMenu]_vars

----------------------------------------------------------------------------
(* A store constructed on a persistence file that something else wrote.    *)

RawTokens ==
    { Punct("["), Punct("]"), Punct("{"), Punct("}"), Punct(","), Punct(":"),
      Tok("str", K_name), Tok("num", <<"1">>),
      Tok("bad", <<>>), Tok("undecodable", <<>>) }

\* Every sequence of up to MaxFileLen of these tokens.
RawFiles == UNION {[1..n -> RawTokens] : n \in 0..MaxFileLen}

\* What save_reservations writes for two bookings, and every prefix of it.
SampleSaved ==
    Serialized(<< Passenger(PyStr(<<"B","o","b">>),
                            PyStr(<<"A","B","C","D","E","F","G","H","1">>),
                            PyStr(<<"F","L","1","0","1">>),
                            PyStr(<<"1","A">>), 0),
                  Passenger(PyStr(<<"a","l","i","c","e">>),
                            PyStr(<<"A","B","C","D","E","F","G","H","1">>),
                            PyStr(<<"F","L","1","0","2">>),
                            PyStr(<<"1","A">>), 0) >>)

SavedPrefixes == {SubSeq(SampleSaved, 1, k) : k \in 0..Len(SampleSaved)}

\* JSON texts that are not the persistence format: an element that is an
\* empty object, one that lacks passport, flight_no and seat, a saved record
\* followed by a number, and an object in place of the array.
MalformedFiles ==
    { Dump(PyList(<<PyDict(<<>>)>>)),
      Dump(PyList(<<PyDict(<< <<K_name, PyStr(<<"B","o","b">>)>> >>)>>)),
      Dump(PyList(<<to_dict(Passenger(PyStr(<<"B","o","b">>),
                                      PyStr(<<"A","B","C","D","E","F","G","H","1">>),
                                      PyStr(<<"F","L","1","0","1">>),
                                      PyStr(<<"1","A">>), 0)),
                    PyInt(<<"1">>)>>)),
      Dump(PyDict(<< <<K_name, PyStr(<<"B","o","b">>)>> >>)) }

LoadFiles == RawFiles \cup SavedPrefixes \cup MalformedFiles

\* No store yet; the file is absent or holds one of the contents above.
InitLoad ==
    /\ reservations = <<>>
    /\ now = 0
    /\ last = Call("start", "none", PyNone)
    /\ args = <<>>
    /\ \/ file = Absent
       \/ \E c \in LoadFiles : file = [exists |-> TRUE, content |-> c]

NextLoad == Construct

SpecLoad == InitLoad /\ [][NextLoad]_vars

----------------------------------------------------------------------------
(* search_reservations called once on a store holding up to MaxSearchLen   *)
(* reservations, for every sequence of the names below and every query.    *)

SearchNames ==
    { <<"A","l","i","c","e">>, <<"a","l","i","c","e">>,
      <<"A","l","i","c","i","a">>, <<"A","l">>,
      <<"B","o","b">>, <<"b","o">> }

SearchQueries ==
    { <<>>, <<"a","l","i","c">>, <<"A","L","I","C","E">>, <<"a","l","i","c","e">>,
      <<"l","i","c">>, <<"B","o","b">>, <<"b">>, <<"z">> }

\* The store after bookings under these names, one seat of FL101 each.
Collection(names) ==
    [i \in DOMAIN names |->
        Passenger(PyStr(names[i]),
                  PyStr(<<"A","B","C","D","E","F","G","H","1">>),
                  PyStr(<<"F","L","1","0","1">>), seats[i], 0)]

InitSearch ==
    /\ \E n \in 0..MaxSearchLen :
        \E names \in [1..n -> SearchNames] :
            /\ reservations = Collection(names)
            /\ file = IF n = 0 THEN Absent
                      ELSE save_reservations(Collection(names))
    /\ now = 0
    /\ last = Call("start", "none", PyNone)
    /\ \E query \in SearchQueries : args = <<PyStr(query)>>

ProbeSearch ==
    /\ last.op = "start"
    /\ SearchCall(args[1].v)

SpecSearch == InitSearch /\ [][ProbeSearch]_vars

----------------------------------------------------------------------------
(* search_reservations call by call: each step runs the body of one call,  *)
(* which returns or calls search_reservations on a slice.  args holds the   *)
(* query and the list of the call that is about to run or has returned.    *)

\* What one call does: whether it recurses, what it returns if not, its list
\* argument as the call leaves it, and the arguments of the call it makes.
Frame(recurse, result, list, query, slice) ==
    [recurse |-> recurse, result |-> result, list |-> list,
     query |-> query, slice |-> slice]

\* The body of a call with the midpoint taken at (len - 1) // 2.
search_frame_LowMid(query, rs) ==
    IF query = <<>> THEN Frame(FALSE, rs, rs, query, <<>>)
    ELSE IF rs = <<>> THEN Frame(FALSE, <<>>, rs, query, <<>>)
    ELSE LET sorted   == SortByName(rs)
             mid      == (Len(sorted) - 1) \div 2
             mid_name == Lower(sorted[mid + 1].name.v)
             q        == Lower(query)
         IN  IF mid_name = q
             THEN Frame(FALSE, <<sorted[mid + 1]>>, sorted, q, <<>>)
             ELSE IF Len(sorted) = 1
                  THEN Frame(FALSE,
                             IF IsSubstring(q, mid_name) THEN <<sorted[1]>> ELSE <<>>,
                             sorted, q, <<>>)
             ELSE IF StrLess(q, mid_name)
                  THEN Frame(TRUE, <<>>, sorted, q, SubSeq(sorted, 1, mid))
             ELSE Frame(TRUE, <<>>, sorted, q, SubSeq(sorted, mid + 1, Len(sorted)))

\* The body of search_reservations(query, rs), up to its return or its
\* recursive call.
search_frame(query, rs) ==
    IF query = <<>> THEN Frame(FALSE, rs, rs, query, <<>>)
    ELSE IF rs = <<>> THEN Frame(FALSE, <<>>, rs, query, <<>>)
    ELSE LET sorted   == SortByName(rs)
             mid      == Len(sorted) \div 2
             mid_name == Lower(sorted[mid + 1].name.v)
             q        == Lower(query)
         IN  IF mid_name = q
             THEN Frame(FALSE, <<sorted[mid + 1]>>, sorted, q, <<>>)
             ELSE IF Len(sorted) = 1
                  THEN Frame(FALSE,
                             IF IsSubstring(q, mid_name) THEN <<sorted[1]>> ELSE <<>>,
                             sorted, q, <<>>)
             ELSE IF StrLess(q, mid_name)
                  THEN Frame(TRUE, <<>>, sorted, q, SubSeq(sorted, 1, mid))
             ELSE Frame(TRUE, <<>>, sorted, q, SubSeq(sorted, mid + 1, Len(sorted)))

\* The call made by the caller of the store: its list is self.reservations.
SearchEnter ==
    /\ last.op = "start"
    /\ LET f == search_frame(args[1].v, reservations) IN
        /\ reservations' = f.list
        /\ args' = <<PyStr(f.query),
                     PyList(IF f.recurse THEN f.slice ELSE f.list)>>
        /\ last' = IF f.recurse THEN Call("search", "call", PyNone)
                   ELSE Returned("search", PyList(f.result))
    /\ UNCHANGED <<file, now>>

\* A recursive call: its list is a slice, a list of its own.
SearchRecurse ==
    /\ last.op = "search"
    /\ last.kind = "call"
    /\ LET f == search_frame(args[1].v, args[2].v) IN
        /\ args' = <<PyStr(f.query),
                     PyList(IF f.recurse THEN f.slice ELSE f.list)>>
        /\ last' = IF f.recurse THEN Call("search", "call", PyNone)
                   ELSE Returned("search", PyList(f.result))
    /\ UNCHANGED <<reservations, file, now>>

NextSearchSteps == SearchEnter \/ SearchRecurse

SpecSearchSteps == InitSearch /\ [][NextSearchSteps]_vars

----------------------------------------------------------------------------
(* The claims.                                                             *)

\* C1: in every state reachable by book, cancel, search, list and store
\* re-construction from an absent persistence file, no two reservations of
\* the collection have the same (flight_no, seat) pair.
C1_NoSharedSeat ==
    \A i, j \in DOMAIN reservations :
        i # j => ~(/\ reservations[i].flight_no = reservations[j].flight_no
                   /\ reservations[i].seat = reservations[j].seat)

\* Two reservations of one seat label on different flights, loaded by a
\* re-constructed store.
C1_Witness ==
    /\ last.op = "init"
    /\ Len(reservations) >= 2
    /\ reservations[1].seat = reservations[2].seat
    /\ reservations[1].flight_no # reservations[2].flight_no

\* C2: in every state reachable by book, cancel and store re-construction,
\* whatever the clock does, no two reservations of the collection have the
\* same booking_id.
C2_UniqueBookingIds ==
    \A i, j \in DOMAIN reservations :
        i # j => reservations[i].booking_id # reservations[j].booking_id

\* C3: after any sequence of successful bookings, a fresh store constructed
\* on the same persistence file lists the same records in the same order,
\* equal on all five fields, as the original store.
C3_RoundTrip ==
    [][last'.op = "init" =>
        /\ last'.kind = "return"
        /\ view_reservations(reservations') = view_reservations(reservations)]_vars

\* Some reservation of res holds the booking id.
Held(res, booking_id) == \E i \in DOMAIN res : res[i].booking_id = booking_id

\* The sequence s without its k-th element.
RemoveAt(s, k) == SubSeq(s, 1, k - 1) \o SubSeq(s, k + 1, Len(s))

\* C4: cancel with a booking_id held by a reservation of the collection
\* returns true and removes exactly that one record, every other record
\* kept and in the same relative order.
C4_CancelRemovesOne ==
    [][\A id \in CancelInputs :
        (last'.op = "cancel" /\ Held(reservations, id) /\ CancelCall(id)) =>
            /\ last'.val = PyBool(TRUE)
            /\ \E k \in DOMAIN reservations :
                /\ reservations[k].booking_id = id
                /\ reservations' = RemoveAt(reservations, k)]_vars

\* C5: cancel with a booking_id that no reservation holds returns false,
\* raises nothing, and leaves the collection (records and order) and the
\* contents of the persistence file unchanged.
C5_CancelAbsent ==
    [][\A id \in CancelInputs :
        (last'.op = "cancel" /\ ~Held(reservations, id) /\ CancelCall(id)) =>
            /\ last'.kind = "return"
            /\ last'.val = PyBool(FALSE)
            /\ reservations' = reservations
            /\ file' = file]_vars

\* A cancel that found nothing, on a store whose collection is not empty and
\* whose file is not what a save would write now.
C5_Witness ==
    /\ last.op = "cancel"
    /\ last.val = PyBool(FALSE)
    /\ reservations # <<>>
    /\ file # save_reservations(reservations)

\* The field constraints as the data model states them.
NameGiven(name) ==
    \E i \in DOMAIN name.v : name.v[i] \notin Range(SpaceChars)

WellFormedPassport(passport) ==
    /\ Len(passport.v) = 9
    /\ \A i \in DOMAIN passport.v :
        passport.v[i] \in Range(UpperChars) \cup Range(DigitChars)

FlightKnown(flight_no) == flight_no \in KnownFlights

SeatKnown(seat) ==
    \E row \in 1..10, letter \in {"A", "B", "C", "D", "E", "F"} :
        seat = PyStr(DecStr(row) \o <<letter>>)

ValidFields(name, passport, flight_no, seat) ==
    /\ NameGiven(name)
    /\ WellFormedPassport(passport)
    /\ FlightKnown(flight_no)
    /\ SeatKnown(seat)

\* The calls of book_ticket whose four fields are valid.
ValidBookInputs ==
    {a : a \in {b \in BookInputs : ValidFields(b[1], b[2], b[3], b[4])}}

PairHeld(res, flight_no, seat) ==
    \E i \in DOMAIN res : res[i].flight_no = flight_no /\ res[i].seat = seat

\* The errors of book: ValueError, told apart by its message.
Conflict == PyExc("ValueError", "Seat already booked")
InvalidInput ==
    { PyExc("ValueError", "Name cannot be empty"),
      PyExc("ValueError", "Invalid passport number (9 alphanumeric characters required)"),
      PyExc("ValueError", "Invalid flight number"),
      PyExc("ValueError", "Invalid seat") }

\* C6: for valid inputs whose (flight_no, seat) no reservation holds, book
\* succeeds; the collection afterwards is the collection before with exactly
\* one record appended at the end, carrying the submitted name, passport,
\* flight_no and seat and a non-empty booking_id, which is the value returned.
C6_BookAppends ==
    [][\A a \in ValidBookInputs :
        (/\ last'.op = "book"
         /\ ~PairHeld(reservations, a[3], a[4])
         /\ BookCall(a[1], a[2], a[3], a[4])) =>
            /\ last'.kind = "return"
            /\ Len(reservations') = Len(reservations) + 1
            /\ SubSeq(reservations', 1, Len(reservations)) = reservations
            /\ LET r == reservations'[Len(reservations')] IN
                /\ r.name = a[1]
                /\ r.passport = a[2]
                /\ r.flight_no = a[3]
                /\ r.seat = a[4]
                /\ r.booking_id.t = "str"
                /\ r.booking_id.v # <<>>
                /\ last'.val = r.booking_id
                /\ view_reservations(reservations')
                     = Append(view_reservations(reservations), to_dict(r))]_vars

\* A successful booking into a collection that already held a record.
C6_Witness ==
    /\ last.op = "book"
    /\ last.kind = "return"
    /\ Len(reservations) = 2
    /\ last.val = reservations[2].booking_id

\* C7: book with valid fields whose (flight_no, seat) pair a reservation
\* already holds fails with the Conflict error and leaves the collection and
\* the persistence file unchanged.
C7_Conflict ==
    [][\A a \in ValidBookInputs :
        (/\ last'.op = "book"
         /\ PairHeld(reservations, a[3], a[4])
         /\ BookCall(a[1], a[2], a[3], a[4])) =>
            /\ last'.kind = "raise"
            /\ last'.val = Conflict
            /\ reservations' = reservations
            /\ file' = file]_vars

\* A booking refused for its seat.
C7_Witness ==
    /\ last.op = "book"
    /\ last.kind = "raise"
    /\ last.val = Conflict
    /\ reservations # <<>>

\* The calls of book_ticket with a field that is not valid.
InvalidBookInputs ==
    {a : a \in {b \in AllBookInputs : ~ValidFields(b[1], b[2], b[3], b[4])}}

\* C8: book fails with InvalidInput whenever the name is empty or only white
\* space, the passport is malformed, the flight_no is not a known flight or
\* the seat is not a known seat; the collection and the persistence file are
\* then unchanged and no booking_id is produced.
C8_InvalidInput ==
    [][\A a \in InvalidBookInputs :
        (last'.op = "book" /\ BookCall(a[1], a[2], a[3], a[4])) =>
            /\ last'.kind = "raise"
            /\ last'.val \in InvalidInput
            /\ reservations' = reservations
            /\ file' = file]_vars

\* C9: passport validation in book accepts a string if and only if it is
\* exactly 9 characters, each an upper-case letter or a digit, for every
\* string of up to 10 characters over upper-case letters, digits, lower-case
\* letters and the newline.
C9_PassportFormat ==
    last.op = "book" =>
        ((last.kind = "return") <=> WellFormedPassport(args[1]))

\* The text is not parseable as JSON.
NotJSON(toks) == ~json_load(toks).ok

\* C10: constructing a store on an existing persistence file whose content is
\* not parseable as JSON (the empty file included) yields an empty
\* collection and raises no exception.
C10_InvalidJSONLoadsEmpty ==
    (last.op = "init" /\ file.exists /\ NotJSON(file.content)) =>
        (last.kind = "return" /\ reservations = <<>>)

\* The value is not what the persistence format asks for: not an array, or
\* an array with an element that is not an object or that lacks one of the
\* fields name, passport, flight_no, seat.
MalformedData(data) ==
    \/ data.t # "list"
    \/ \E i \in DOMAIN data.v :
        \/ data.v[i].t # "dict"
        \/ \E j \in DOMAIN FieldKeys : ~HasKey(data.v[i], FieldKeys[j])

\* C11: constructing a store on an existing persistence file whose content
\* parses as JSON but is malformed with respect to the persistence format
\* fails soft: the store starts with an empty collection and no exception is
\* raised.
C11_MalformedLoadsEmpty ==
    (/\ last.op = "init"
     /\ file.exists
     /\ Decodable(file.content)
     /\ json_load(file.content).ok
     /\ MalformedData(json_load(file.content).val)) =>
        (last.kind = "return" /\ reservations = <<>>)

\* C12: whenever a book or a cancel that changed the collection returns, the
\* persistence file exists and, read back, holds exactly the in-memory
\* collection: the same records in the same order, each with the same
\* booking_id, name, passport, flight_no and seat.
C12_SavedOnReturn ==
    [][(/\ last'.op \in {"book", "cancel"}
        /\ last'.kind = "return"
        /\ reservations' # reservations) =>
            /\ file'.exists
            /\ Decodable(file'.content)
            /\ json_load(file'.content).ok
            /\ json_load(file'.content).val
                  = PyList(view_reservations(reservations'))]_vars

\* A cancel that removed a record and left another, the file holding the rest.
C12_Witness ==
    /\ last.op = "cancel"
    /\ last.val = PyBool(TRUE)
    /\ reservations # <<>>
    /\ file.exists
    /\ json_load(file.content).val = PyList(view_reservations(reservations))

\* C13: search operates on a snapshot: for every query and every store
\* state, a call of search leaves the store's collection unchanged, both its
\* records and their order.
C13_SearchKeepsOrder ==
    [][last'.op = "search" => reservations' = reservations]_vars

\* Some reservation of res has the name, compared in lower case.
NamedLike(res, query) ==
    \E i \in DOMAIN res : Lower(res[i].name.v) = Lower(query)

\* C14: for every collection and every non-empty query, if at least one
\* reservation's lowercased name equals the lowercased query, search returns
\* exactly one record and that record's lowercased name equals the
\* lowercased query.
C14_ExactMatchFound ==
    [][(/\ last'.op = "search"
        /\ args[1].v # <<>>
        /\ NamedLike(reservations, args[1].v)) =>
            /\ Len(last'.val.v) = 1
            /\ Lower(last'.val.v[1].name.v) = Lower(args[1].v)]_vars

\* An exact match in another case found among three records, the match not
\* at the midpoint of the sorted list.
C14_Witness ==
    /\ last.op = "search"
    /\ args[1].v = <<"B","o","b">>
    /\ Len(reservations) = 3
    /\ Lower(reservations[2].name.v) # <<"b","o","b">>
    /\ Len(last.val.v) = 1
    /\ last.val.v[1].name.v = <<"B","o","b">>

\* The place of the i-th record in the stable order by lowercased name.
NameRank(rs, i) ==
    1 + Cardinality({j \in DOMAIN rs :
            \/ StrLess(Lower(rs[j].name.v), Lower(rs[i].name.v))
            \/ Lower(rs[j].name.v) = Lower(rs[i].name.v) /\ j < i})

StableByName(rs) ==
    LET rank == <<>> @@ [i \in DOMAIN rs |-> NameRank(rs, i)]
    IN  SubSeq([k \in DOMAIN rs |-> rs[CHOOSE i \in DOMAIN rs : rank[i] = k]],
               1, Len(rs))

\* The reference algorithm NameSearch, by its steps 1 to 7.
RECURSIVE NameSearch(_, _)
NameSearch(query, input) ==
    IF query = <<>> THEN input
    ELSE IF input = <<>> THEN <<>>
    ELSE LET s        == StableByName(input)
             midpoint == Len(s) \div 2
             name     == Lower(s[midpoint + 1].name.v)
         IN  IF name = Lower(query) THEN <<s[midpoint + 1]>>
             ELSE IF Len(s) = 1
                  THEN IF IsSubstring(Lower(query), name) THEN s ELSE <<>>
             ELSE IF StrLess(Lower(query), name)
                  THEN NameSearch(query, SubSeq(s, 1, midpoint))
             ELSE NameSearch(query, SubSeq(s, midpoint + 1, Len(s)))

\* The store holds exactly "Alice" and "Alicia", in either order.
AliceAndAlicia(res) ==
    /\ Len(res) = 2
    /\ {res[1].name.v, res[2].name.v}
          = {<<"A","l","i","c","e">>, <<"A","l","i","c","i","a">>}

\* C15: for every collection and query, the result of search equals the
\* result of the reference algorithm; with reservations "Alice" and
\* "Alicia", search("alic") returns exactly the one record named "Alice".
C15_MatchesReference ==
    [][last'.op = "search" =>
        /\ last'.val = PyList(NameSearch(args[1].v, reservations))
        /\ (AliceAndAlicia(reservations) /\ args[1].v = <<"a","l","i","c">>) =>
              /\ Len(last'.val.v) = 1
              /\ last'.val.v[1].name.v = <<"A","l","i","c","e">>]_vars

\* search("alic") done on "Alicia" and "Alice": one record, "Alice".
C15_Witness ==
    /\ last.op = "search"
    /\ args[1].v = <<"a","l","i","c">>
    /\ AliceAndAlicia(reservations)
    /\ Len(last.val.v) = 1
    /\ last.val.v[1].name.v = <<"A","l","i","c","e">>

\* C19: search is sound: for every collection and every non-empty query,
\* search returns at most one record, every returned record is a reservation
\* of the collection, and its lowercased name contains the lowercased query.
C19_SearchSound ==
    [][(last'.op = "search" /\ args[1].v # <<>>) =>
        /\ Len(last'.val.v) <= 1
        /\ \A k \in DOMAIN last'.val.v :
            /\ \E i \in DOMAIN reservations : reservations[i] = last'.val.v[k]
            /\ IsSubstring(Lower(args[1].v), Lower(last'.val.v[k].name.v))]_vars

\* A search that found a record by a part of its name that is not its
\* beginning.
C19_Witness ==
    /\ last.op = "search"
    /\ args[1].v = <<"l","i","c">>
    /\ Len(last.val.v) = 1
    /\ Len(reservations) >= 2

\* The list of the call that runs next.
CallerSlice == IF last.op = "start" THEN reservations ELSE args[2].v

\* C16: search terminates for every finite collection and every query: every
\* recursive call is made on a non-empty slice strictly shorter than the
\* slice of its caller, and a slice of length one never recurses (so the
\* lengths of the slices of successive calls decrease and the calls end).
C16_SearchTerminates ==
    [][(last'.op = "search" /\ last'.kind = "call") =>
        /\ Len(args'[2].v) > 0
        /\ Len(args'[2].v) < Len(CallerSlice)
        /\ Len(CallerSlice) # 1]_vars

\* A search of three records that returned from its second recursive call.
C16_Witness ==
    /\ last.op = "search"
    /\ last.kind = "return"
    /\ Len(reservations) = 3
    /\ Len(args[2].v) = 1

\* C17: if the process is interrupted in the middle of a rewrite of the
\* persistence file, leaving any proper prefix of the intended contents (the
\* empty file included) on disk, the next store construction raises no
\* exception and starts with an empty collection.
C17_TornFileLoadsEmpty ==
    [][(last.kind = "killed" /\ last'.op = "init") =>
        /\ last'.kind = "return"
        /\ reservations' = <<>>]_vars

\* A store constructed on a file that holds a whole record and the beginning
\* of a second.
C17_Witness ==
    /\ last.op = "init"
    /\ file.exists
    /\ Len(file.content) > Len(SampleSaved) \div 2
    /\ NotJSON(file.content)
    /\ reservations = <<>>

\* C20: book and cancel are atomic with respect to a persistence failure: if
\* the rewrite of the persistence file raises an error during book or
\* cancel, the in-memory collection is the same as before the operation.
C20_AtomicOnSaveFailure ==
    [][(/\ last'.op \in {"book", "cancel"}
        /\ last'.kind = "raise"
        /\ last'.val.v[1] = "OSError") =>
            reservations' = reservations]_vars

\* C18: the menu loop ends only by choice 5 or by end of input at any
\* prompt; any other error raised during an iteration is reported and the
\* loop continues with the next menu prompt; an end of input in the middle
\* of a book flow adds no reservation.
C18_MenuLoop ==
    [][last'.op = "menu" =>
        LET step == last'.val.v IN
        /\ last'.kind \in {"prompt", "break"}
        /\ (last'.kind = "break") <=> (step.choice = <<"5">> \/ step.eof > 0)
        /\ (step.exc # PyNone /\ step.eof = 0) =>
              /\ last'.kind = "prompt"
              /\ step.text \in {"Error", "An error occurred"}
        /\ (step.choice = <<"1">> /\ step.eof > 0) =>
              /\ reservations' = reservations
              /\ file' = file]_vars

\* The loop left by an end of input at the flight prompt of a book flow, the
\* store holding a reservation made before.
C18_Witness ==
    /\ last.op = "menu"
    /\ last.kind = "break"
    /\ last.val.v.choice = <<"1">>
    /\ last.val.v.eof = 4
    /\ Len(reservations) = 1

=============================================================================
